---------------------------- MODULE Spec2Model ----------------------------
(* Model of clippy_lints/src/lifetimes.rs: the NEEDLESS_LIFETIMES and      *)
(* EXTRA_UNUSED_LIFETIMES lints.  A state holds one function signature in  *)
(* HIR form (FnDecl, Generics, optional body) and the position of          *)
(* check_fn_inner in it.  The rustc intravisit walkers the lint calls      *)
(* (walk_ty, walk_param_bound, walk_generics, walk_fn_decl) are written    *)
(* out next to the visitor methods that call them.                         *)
EXTENDS Integers, Sequences, FiniteSets, TLC

-----------------------------------------------------------------------------
(* Bounds of the model *)

\* nesting depth of the type trees of the deep family
MaxDepth == 2
\* generic parameters a resolved declaration introduces
MaxArity == 2
\* predicates in a where clause
MaxPreds == 2
\* parameters of a function of the shallow family
MaxInputs == 2

-----------------------------------------------------------------------------
(* Option<T> *)

None == [some |-> FALSE]
Some(x) == [some |-> TRUE, val |-> x]

RECURSIVE SeqToSet(_)
SeqToSet(s) == IF s = <<>> THEN {} ELSE {Head(s)} \cup SeqToSet(Tail(s))

-----------------------------------------------------------------------------
(* hir::LifetimeName, as the lint inspects it *)

LifetimeName_Implicit == [name |-> "Implicit"]
LifetimeName_Underscore == [name |-> "Underscore"]
LifetimeName_Static == [name |-> "Static"]
LifetimeName_Param(n) == [name |-> "Param", ident |-> n]

\* Lifetime::is_elided
is_elided(lt) == lt.name \in {"Implicit", "Underscore"}

\* keywords::Invalid.name(), the name of an implicit lifetime
Invalid == ""

\* lt.name.ident().name
ident_name(lt) ==
    CASE lt.name = "Implicit" -> Invalid
      [] lt.name = "Underscore" -> "'_"
      [] lt.name = "Static" -> "'static"
      [] OTHER -> lt.ident

(* enum RefLt *)
RefLt_Unnamed == <<"Unnamed">>
RefLt_Static == <<"Static">>
RefLt_Named(n) == <<"Named", n>>

-----------------------------------------------------------------------------
(* HIR nodes.  A path is its last segment: the resolved definition and the *)
(* segment's optional generic arguments.                                   *)

Def(kind, params) == [kind |-> kind, params |-> params]
\* Def::Existential(def_id): whether def_id is local, what kind of item the
\* local node is, and the bounds of the ItemExistential.  The item is looked
\* up through the HIR map: its bounds are not part of the type that names it,
\* the lifetimes they capture are the generic arguments of the path.
DefExistential(local, item, bounds) ==
    [kind |-> "Existential", local |-> local, item |-> item, bounds |-> bounds]

GenericArg_Lifetime(lt) == [kind |-> "Lifetime", lt |-> lt]
GenericArg_Type(ty) == [kind |-> "Type", ty |-> ty]
GenericArgs(parenthesized, args) == [parenthesized |-> parenthesized, args |-> args]

TyRptr(lt, ty) == [node |-> "TyRptr", lt |-> lt, ty |-> ty]
TyPath(def, args) == [node |-> "TyPath", def |-> def, args |-> args]
TyTraitObject(bounds, lt) == [node |-> "TyTraitObject", bounds |-> bounds, lt |-> lt]
TyTup(tys) == [node |-> "TyTup", tys |-> tys]

\* PolyTraitRef: the path of the trait
PolyTraitRef(def, args) == [def |-> def, args |-> args]
GenericBound_Trait(ptr) == [kind |-> "Trait", trait_ref |-> ptr]
GenericBound_Outlives(lt) == [kind |-> "Outlives", lt |-> lt]

GenericParam_Lifetime(n, bounds) == [kind |-> "Lifetime", name |-> n, bounds |-> bounds]
GenericParam_Type(n, bounds) == [kind |-> "Type", name |-> n, bounds |-> bounds]

RegionPredicate(lt, bounds) == [kind |-> "RegionPredicate", lifetime |-> lt, bounds |-> bounds]
BoundPredicate(bgp, ty, bounds) ==
    [kind |-> "BoundPredicate", bound_generic_params |-> bgp, bounded_ty |-> ty, bounds |-> bounds]
EqPredicate(l, r) == [kind |-> "EqPredicate", lhs_ty |-> l, rhs_ty |-> r]

-----------------------------------------------------------------------------
(* struct RefVisitor.  fault records a panic: once set, nothing more runs. *)

RefVisitor_new == [lts |-> <<>>, abort |-> FALSE, fault |-> FALSE]

record(self, lifetime) ==
    IF lifetime.some
    THEN IF lifetime.val = LifetimeName_Static
         THEN [self EXCEPT !.lts = Append(@, RefLt_Static)]
         ELSE IF is_elided(lifetime.val)
              THEN [self EXCEPT !.lts = Append(@, RefLt_Unnamed)]
              ELSE [self EXCEPT !.lts = Append(@, RefLt_Named(ident_name(lifetime.val)))]
    ELSE [self EXCEPT !.lts = Append(@, RefLt_Unnamed)]

\* faulty variant: the abort flag is ignored
into_vec_ignoring_abort(self) == Some(self.lts)

into_vec(self) == IF self.abort THEN None ELSE Some(self.lts)

RECURSIVE record_none_times(_, _)
record_none_times(self, n) ==
    IF n = 0 THEN self ELSE record_none_times(record(self, None), n - 1)

has_lifetime_arg(args) == \E i \in 1..Len(args) : args[i].kind = "Lifetime"

\* faulty variant: an unresolved path aborts the collector
collect_anonymous_lifetimes_abort(self, ty) ==
    IF ty.args.some
    THEN IF ~ty.args.val.parenthesized /\ ~has_lifetime_arg(ty.args.val.args)
         THEN CASE ty.def.kind \in {"TyAlias", "Struct"} -> record_none_times(self, ty.def.params)
                [] ty.def.kind = "Trait" -> record_none_times(self, ty.def.params)
                [] OTHER -> [self EXCEPT !.abort = TRUE]
         ELSE self
    ELSE self

\* faulty variant: explicit type arguments also suppress the synthesized lifetimes
collect_anonymous_lifetimes_no_args(self, ty) ==
    IF ty.args.some
    THEN IF ~ty.args.val.parenthesized /\ ty.args.val.args = <<>>
         THEN CASE ty.def.kind \in {"TyAlias", "Struct"} -> record_none_times(self, ty.def.params)
                [] ty.def.kind = "Trait" -> record_none_times(self, ty.def.params)
                [] OTHER -> self
         ELSE self
    ELSE self

collect_anonymous_lifetimes(self, ty) ==
    IF ty.args.some
    THEN IF ~ty.args.val.parenthesized /\ ~has_lifetime_arg(ty.args.val.args)
         THEN CASE ty.def.kind \in {"TyAlias", "Struct"} -> record_none_times(self, ty.def.params)
                [] ty.def.kind = "Trait" -> record_none_times(self, ty.def.params)
                [] OTHER -> self
         ELSE self
    ELSE self

RefVisitor_visit_lifetime(self, lifetime) == record(self, Some(lifetime))

RECURSIVE count_outlives(_)
count_outlives(bounds) ==
    IF bounds = <<>> THEN 0
    ELSE (IF Head(bounds).kind = "Outlives" THEN 1 ELSE 0) + count_outlives(Tail(bounds))

RECURSIVE RefVisitor_visit_ty(_, _)
RECURSIVE RefVisitor_walk_ty(_, _)
RECURSIVE RefVisitor_walk_generic_args(_, _)
RECURSIVE RefVisitor_visit_tys(_, _)
RECURSIVE RefVisitor_walk_param_bound(_, _)
RECURSIVE RefVisitor_walk_bounds(_, _)

\* walk_path_segment / walk_generic_args: each argument in order
RefVisitor_walk_generic_args(self, args) ==
    IF args = <<>> \/ self.fault THEN self
    ELSE LET arg == Head(args)
             s1 == IF arg.kind = "Lifetime"
                   THEN RefVisitor_visit_lifetime(self, arg.lt)
                   ELSE RefVisitor_visit_ty(self, arg.ty)
         IN  RefVisitor_walk_generic_args(s1, Tail(args))

RefVisitor_visit_tys(self, tys) ==
    IF tys = <<>> \/ self.fault THEN self
    ELSE RefVisitor_visit_tys(RefVisitor_visit_ty(self, Head(tys)), Tail(tys))

\* visit_poly_trait_ref: the default walk over the trait's path
RefVisitor_visit_poly_trait_ref(self, ptr) ==
    IF ptr.args.some THEN RefVisitor_walk_generic_args(self, ptr.args.val.args) ELSE self

RefVisitor_walk_param_bound(self, bound) ==
    IF bound.kind = "Trait"
    THEN RefVisitor_visit_poly_trait_ref(self, bound.trait_ref)
    ELSE RefVisitor_visit_lifetime(self, bound.lt)

RefVisitor_walk_bounds(self, bounds) ==
    IF bounds = <<>> \/ self.fault THEN self
    ELSE RefVisitor_walk_bounds(RefVisitor_walk_param_bound(self, Head(bounds)), Tail(bounds))

\* intravisit::walk_ty with RefVisitor as the visitor
RefVisitor_walk_ty(self, ty) ==
    IF self.fault THEN self
    ELSE CASE ty.node = "TyRptr" ->
                RefVisitor_visit_ty(RefVisitor_visit_lifetime(self, ty.lt), ty.ty)
           [] ty.node = "TyPath" ->
                IF ty.args.some
                THEN RefVisitor_walk_generic_args(self, ty.args.val.args)
                ELSE self
           [] ty.node = "TyTup" -> RefVisitor_visit_tys(self, ty.tys)
           [] ty.node = "TyTraitObject" ->
                LET s1 == RefVisitor_walk_bounds(self, ty.bounds)
                IN  IF s1.fault THEN s1 ELSE RefVisitor_visit_lifetime(s1, ty.lt)
           [] OTHER -> self

RefVisitor_visit_ty(self, ty) ==
    IF self.fault THEN self
    ELSE CASE ty.node = "TyRptr" ->
                RefVisitor_walk_ty(IF is_elided(ty.lt) THEN record(self, None) ELSE self, ty)
           [] ty.node = "TyPath" ->
                IF ty.def.kind = "Existential"
                THEN IF ~ty.def.local
                     THEN [self EXCEPT !.fault = TRUE]
                     ELSE IF ty.def.item = "ItemExistential"
                          THEN RefVisitor_walk_ty(
                                   record_none_times(self, count_outlives(ty.def.bounds)), ty)
                          ELSE [self EXCEPT !.fault = TRUE]
                ELSE RefVisitor_walk_ty(collect_anonymous_lifetimes(self, ty), ty)
           [] ty.node = "TyTraitObject" ->
                RefVisitor_walk_bounds(
                    IF ~is_elided(ty.lt) THEN [self EXCEPT !.abort = TRUE] ELSE self,
                    ty.bounds)
           [] OTHER -> RefVisitor_walk_ty(self, ty)

-----------------------------------------------------------------------------
(* Free functions of lifetimes.rs *)

allowed_lts_from(named_generics) ==
    {RefLt_Named(named_generics[i].name) :
        i \in {j \in 1..Len(named_generics) :
                 /\ named_generics[j].kind = "Lifetime"
                 /\ named_generics[j].bounds = <<>>}}
    \cup {RefLt_Unnamed, RefLt_Static}

RECURSIVE lts_from_bounds(_, _)
lts_from_bounds(vec, bounds_lts) ==
    IF bounds_lts = <<>> THEN vec
    ELSE lts_from_bounds(
             IF Head(bounds_lts) # LifetimeName_Static
             THEN Append(vec, RefLt_Named(ident_name(Head(bounds_lts))))
             ELSE vec,
             Tail(bounds_lts))

\* faulty variant: counts the elements, not the distinct ones
unique_lifetimes_len(lts) == Len(lts)

unique_lifetimes(lts) == Cardinality(SeqToSet(lts))

\* BodyLifetimeChecker::visit_lifetime over every lifetime written in the body
BodyLifetimeChecker_visit_lifetime(lifetimes_used_in_body, lifetime) ==
    IF ident_name(lifetime) # Invalid /\ ident_name(lifetime) # "'static"
    THEN TRUE
    ELSE lifetimes_used_in_body

RECURSIVE BodyLifetimeChecker_visit_expr(_, _)
BodyLifetimeChecker_visit_expr(lifetimes_used_in_body, lts) ==
    IF lts = <<>> THEN lifetimes_used_in_body
    ELSE BodyLifetimeChecker_visit_expr(
             BodyLifetimeChecker_visit_lifetime(lifetimes_used_in_body, Head(lts)), Tail(lts))

\* result of a function that may panic
Ret(v) == [fault |-> FALSE, ret |-> v]
Panicked == [fault |-> TRUE]

RECURSIVE has_where_lifetimes(_)
has_where_lifetimes(predicates) ==
    IF predicates = <<>> THEN Ret(FALSE)
    ELSE LET predicate == Head(predicates) IN
         CASE predicate.kind = "RegionPredicate" -> Ret(TRUE)
           [] predicate.kind = "BoundPredicate" ->
                LET visitor == RefVisitor_walk_ty(RefVisitor_new, predicate.bounded_ty)
                    allowed_lts == allowed_lts_from(predicate.bound_generic_params)
                    walked == RefVisitor_walk_bounds(visitor, predicate.bounds)
                    lts == into_vec(walked)
                IN  IF visitor.fault THEN Panicked
                    ELSE IF visitor.lts # <<>> THEN Ret(TRUE)
                    ELSE IF walked.fault THEN Panicked
                    ELSE IF ~lts.some THEN Ret(FALSE)
                    ELSE IF \E i \in 1..Len(lts.val) : lts.val[i] \notin allowed_lts
                         THEN Ret(TRUE)
                         ELSE has_where_lifetimes(Tail(predicates))
           [] OTHER ->
                LET v1 == RefVisitor_walk_ty(RefVisitor_new, predicate.lhs_ty)
                    visitor == RefVisitor_walk_ty(v1, predicate.rhs_ty)
                IN  IF visitor.fault THEN Panicked
                    ELSE IF visitor.lts # <<>> THEN Ret(TRUE)
                    ELSE has_where_lifetimes(Tail(predicates))

\* faulty variant: 'static is not taken for already minimal
unnamed_and_static_only_unnamed(input_lts) ==
    \A i \in 1..Len(input_lts) : input_lts[i] = RefLt_Unnamed

\* faulty variant: an elided lifetime is not taken for already minimal
unnamed_and_static_only_static(input_lts) ==
    \A i \in 1..Len(input_lts) : input_lts[i] = RefLt_Static

\* lines 211-213: only unnamed and static
unnamed_and_static(input_lts) ==
    \A i \in 1..Len(input_lts) : input_lts[i] \in {RefLt_Unnamed, RefLt_Static}

could_use_elision(func, body, named_generics, bounds_lts) ==
    LET allowed_lts == allowed_lts_from(named_generics)
        input_visitor == RefVisitor_visit_tys(RefVisitor_new, func.inputs)
        output_visitor == IF func.output.some
                          THEN RefVisitor_visit_ty(RefVisitor_new, func.output.val)
                          ELSE RefVisitor_new
        input_lts == lts_from_bounds(input_visitor.lts, bounds_lts)
        output_lts == output_visitor.lts
        all_lts == input_lts \o output_lts
        ret ==
            IF ~into_vec(input_visitor).some THEN FALSE
            ELSE IF ~into_vec(output_visitor).some THEN FALSE
            ELSE IF body.some /\ BodyLifetimeChecker_visit_expr(FALSE, body.val) THEN FALSE
            ELSE IF \E i \in 1..Len(all_lts) : all_lts[i] \notin allowed_lts THEN FALSE
            ELSE IF input_lts = <<>> THEN FALSE
            ELSE IF output_lts = <<>>
                 THEN IF unnamed_and_static(input_lts) THEN FALSE
                      ELSE Len(input_lts) = unique_lifetimes(input_lts)
                 ELSE IF unique_lifetimes(output_lts) > 1 THEN FALSE
                      ELSE IF Len(input_lts) = 1
                           THEN \/ /\ input_lts[1][1] = "Named"
                                   /\ output_lts[1][1] = "Named"
                                   /\ input_lts[1][2] = output_lts[1][2]
                                \/ /\ input_lts[1][1] = "Named"
                                   /\ output_lts[1] = RefLt_Unnamed
                           ELSE FALSE
    IN  IF input_visitor.fault \/ output_visitor.fault
        THEN [fault |-> TRUE, input_visitor |-> input_visitor, output_visitor |-> output_visitor]
        ELSE [fault |-> FALSE, ret |-> ret,
              input_visitor |-> input_visitor, output_visitor |-> output_visitor,
              input_lts |-> IF into_vec(input_visitor).some THEN Some(input_lts) ELSE None,
              output_lts |-> IF into_vec(input_visitor).some
                             THEN into_vec(output_visitor) ELSE None]

-----------------------------------------------------------------------------
(* check_fn_inner, lines 103-137: the bounds of the type parameters *)

RECURSIVE type_param_bounds(_)
type_param_bounds(params) ==
    IF params = <<>> THEN <<>>
    ELSE (IF Head(params).kind = "Type" THEN Head(params).bounds ELSE <<>>)
         \o type_param_bounds(Tail(params))

RECURSIVE lifetime_args(_)
lifetime_args(args) ==
    IF args = <<>> THEN <<>>
    ELSE (IF Head(args).kind = "Lifetime" THEN <<Head(args).lt>> ELSE <<>>)
         \o lifetime_args(Tail(args))

has_named(lts) == \E i \in 1..Len(lts) : lts[i][1] = "Named"

\* outcome "return" (lines 113, 130), "fault", or "pass" with bounds_lts
RECURSIVE scan_bounds(_, _)
scan_bounds(bounds, bounds_lts) ==
    IF bounds = <<>> THEN [outcome |-> "pass", bounds_lts |-> bounds_lts]
    ELSE LET bound == Head(bounds)
             visitor == RefVisitor_walk_param_bound(RefVisitor_new, bound)
             lifetimes == IF bound.kind = "Trait" /\ bound.trait_ref.args.some
                          THEN lifetime_args(bound.trait_ref.args.val.args)
                          ELSE <<>>
         IN  IF visitor.fault THEN [outcome |-> "fault", bounds_lts |-> bounds_lts]
             ELSE IF has_named(visitor.lts) THEN [outcome |-> "return", bounds_lts |-> bounds_lts]
             ELSE IF \E i \in 1..Len(lifetimes) :
                        lifetimes[i] # LifetimeName_Static /\ ~is_elided(lifetimes[i])
                  THEN [outcome |-> "return", bounds_lts |-> bounds_lts]
                  ELSE scan_bounds(Tail(bounds), bounds_lts \o lifetimes)

-----------------------------------------------------------------------------
(* struct LifetimeChecker and report_extra_lifetimes.  The checker keeps   *)
(* the default visit_ty, so the walk reaches every lifetime of a type.     *)

RECURSIVE walk_ty_lifetimes(_)
RECURSIVE walk_args_lifetimes(_)
RECURSIVE walk_tys_lifetimes(_)
RECURSIVE walk_bounds_lifetimes(_)

\* names handed to LifetimeChecker::visit_lifetime while walking one type
walk_ty_lifetimes(ty) ==
    CASE ty.node = "TyRptr" -> {ident_name(ty.lt)} \cup walk_ty_lifetimes(ty.ty)
      [] ty.node = "TyPath" ->
            IF ty.args.some THEN walk_args_lifetimes(ty.args.val.args) ELSE {}
      [] ty.node = "TyTup" -> walk_tys_lifetimes(ty.tys)
      [] ty.node = "TyTraitObject" ->
            walk_bounds_lifetimes(ty.bounds) \cup {ident_name(ty.lt)}
      [] OTHER -> {}

walk_args_lifetimes(args) ==
    IF args = <<>> THEN {}
    ELSE (IF Head(args).kind = "Lifetime"
          THEN {ident_name(Head(args).lt)}
          ELSE walk_ty_lifetimes(Head(args).ty))
         \cup walk_args_lifetimes(Tail(args))

walk_tys_lifetimes(tys) ==
    IF tys = <<>> THEN {} ELSE walk_ty_lifetimes(Head(tys)) \cup walk_tys_lifetimes(Tail(tys))

walk_bounds_lifetimes(bounds) ==
    IF bounds = <<>> THEN {}
    ELSE (IF Head(bounds).kind = "Trait"
          THEN IF Head(bounds).trait_ref.args.some
               THEN walk_args_lifetimes(Head(bounds).trait_ref.args.val.args)
               ELSE {}
          ELSE {ident_name(Head(bounds).lt)})
         \cup walk_bounds_lifetimes(Tail(bounds))

\* LifetimeChecker::visit_generic_param: only type parameters are walked
RECURSIVE LifetimeChecker_visit_generic_params(_)
LifetimeChecker_visit_generic_params(params) ==
    IF params = <<>> THEN {}
    ELSE (IF Head(params).kind = "Type"
          THEN walk_bounds_lifetimes(Head(params).bounds)
          ELSE {})
         \cup LifetimeChecker_visit_generic_params(Tail(params))

RECURSIVE walk_where_predicates(_)
walk_where_predicates(predicates) ==
    IF predicates = <<>> THEN {}
    ELSE LET p == Head(predicates) IN
         (CASE p.kind = "RegionPredicate" ->
                  {ident_name(p.lifetime)} \cup walk_bounds_lifetimes(p.bounds)
            [] p.kind = "BoundPredicate" ->
                  walk_ty_lifetimes(p.bounded_ty) \cup walk_bounds_lifetimes(p.bounds)
                  \cup LifetimeChecker_visit_generic_params(p.bound_generic_params)
            [] OTHER -> walk_ty_lifetimes(p.lhs_ty) \cup walk_ty_lifetimes(p.rhs_ty))
         \cup walk_where_predicates(Tail(predicates))

\* walk_generics followed by walk_fn_decl
LifetimeChecker_visited(func, gen) ==
    LifetimeChecker_visit_generic_params(gen.params)
    \cup walk_where_predicates(gen.where_clause)
    \cup walk_tys_lifetimes(func.inputs)
    \cup (IF func.output.some THEN walk_ty_lifetimes(func.output.val) ELSE {})

\* the names left in checker.map, one finding each
report_extra_lifetimes(func, gen) ==
    LET hs == {gen.params[i].name :
                  i \in {j \in 1..Len(gen.params) : gen.params[j].kind = "Lifetime"}}
    IN  hs \ LifetimeChecker_visited(func, gen)

-----------------------------------------------------------------------------
(* The signatures analysed *)

LtA == LifetimeName_Param("a")
LtB == LifetimeName_Param("b")
Lifetimes == {LifetimeName_Implicit, LifetimeName_Static, LtA, LtB}

RECURSIVE SeqsUpTo(_, _)
SeqsUpTo(S, n) ==
    IF n = 0 THEN {<<>>}
    ELSE LET shorter == SeqsUpTo(S, n - 1)
         IN  shorter \cup {Append(q, x) : q \in {r \in shorter : Len(r) = n - 1}, x \in S}

U8 == TyPath(Def("PrimTy", 0), None)
\* Foo<'l> for struct Foo<'x>; an omitted lifetime is lowered to an Implicit argument
FooLt(l) == TyPath(Def("Struct", 1), Some(GenericArgs(FALSE, <<GenericArg_Lifetime(l)>>)))
TraitBound(args) == GenericBound_Trait(PolyTraitRef(Def("Trait", 1), args))
TypeArgs(t) == Some(GenericArgs(FALSE, <<GenericArg_Type(t)>>))

LocalExistential(bounds, args) == TyPath(DefExistential(TRUE, "ItemExistential", bounds), args)
ForeignExistential == TyPath(DefExistential(FALSE, "ItemExistential", <<TraitBound(None)>>), None)

\* dyn Tr<'a> with the object lifetime elided
DynTraitLt == TyTraitObject(
    <<TraitBound(Some(GenericArgs(FALSE, <<GenericArg_Lifetime(LtA)>>)))>>, LifetimeName_Implicit)

DeepLifetimes == {LifetimeName_Implicit, LifetimeName_Static, LtA}

TyLeaves ==
    {U8, ForeignExistential, DynTraitLt}
    \cup {FooLt(l) : l \in DeepLifetimes}
    \cup {TyPath(Def("Struct", n), None) : n \in 1..MaxArity}
    \cup {LocalExistential(<<TraitBound(None)>>, None),
          LocalExistential(<<TraitBound(None), GenericBound_Outlives(LifetimeName_Static)>>, None),
          LocalExistential(<<TraitBound(None), GenericBound_Outlives(LtA)>>,
                           Some(GenericArgs(FALSE, <<GenericArg_Lifetime(LtA)>>)))}

TyWrap(S) ==
    {TyRptr(l, t) : l \in DeepLifetimes, t \in S}
    \cup {TyTup(<<t>>) : t \in S}
    \cup {TyPath(Def("Struct", n), TypeArgs(t)) : n \in 1..MaxArity, t \in S}
    \cup {TyPath(Def(k, 1), TypeArgs(t)) : k \in {"TyAlias", "Trait", "Enum"}, t \in S}
    \cup {TyPath(Def("Trait", 1), Some(GenericArgs(TRUE, <<GenericArg_Type(t)>>))) : t \in S}
    \cup {TyPath(Def("Struct", 2),
                 Some(GenericArgs(FALSE, <<GenericArg_Lifetime(LtA), GenericArg_Type(t)>>))) :
            t \in S}
    \cup {TyTraitObject(<<TraitBound(TypeArgs(t))>>, l) :
            l \in {LifetimeName_Implicit, LifetimeName_Static}, t \in S}

RECURSIVE TyTrees(_)
TyTrees(d) == IF d = 0 THEN TyLeaves ELSE LET S == TyTrees(d - 1) IN S \cup TyWrap(S)

FnDecl(inputs, output) == [inputs |-> inputs, output |-> output]
Generics(params, where_clause) == [params |-> params, where_clause |-> where_clause]

RefA == TyRptr(LtA, U8)
PlainLifetimes == <<GenericParam_Lifetime("a", <<>>), GenericParam_Lifetime("b", <<>>)>>

ShallowTys ==
    {U8, FooLt(LtA), TyPath(Def("Struct", 1), TypeArgs(U8))}
    \cup {TyRptr(l, U8) : l \in Lifetimes}

ShallowOutputs ==
    {None, Some(U8), Some(TyRptr(LtA, TyRptr(LtB, U8)))}
    \cup {Some(TyRptr(l, U8)) : l \in Lifetimes}

LifetimeParams ==
    {<<GenericParam_Lifetime("a", <<>>)>>,
     PlainLifetimes,
     <<GenericParam_Lifetime("a", <<>>),
       GenericParam_Lifetime("b", <<GenericBound_Outlives(LtA)>>)>>}

TypeParamBounds ==
    {<<>>,
     <<TraitBound(None)>>,
     <<GenericBound_Outlives(LtA)>>,
     <<TraitBound(None), GenericBound_Outlives(LifetimeName_Static)>>,
     <<TraitBound(TypeArgs(ForeignExistential))>>}
    \cup {<<TraitBound(Some(GenericArgs(FALSE, <<GenericArg_Lifetime(l)>>)))>> :
            l \in {LifetimeName_Implicit, LifetimeName_Static, LtA}}

Bodies == {None, Some(<<>>), Some(<<LtA>>), Some(<<LifetimeName_Static>>)}

TyT == TyPath(Def("TyParam", 0), None)
BoxDyn(l) == TyPath(Def("Struct", 1), TypeArgs(TyTraitObject(<<TraitBound(None)>>, l)))

WherePredicates ==
    {RegionPredicate(LtA, <<GenericBound_Outlives(LtB)>>),
     BoundPredicate(<<>>, TyT, <<TraitBound(None)>>),
     BoundPredicate(<<>>, TyRptr(LtA, TyT), <<TraitBound(None)>>),
     BoundPredicate(<<>>, TyT, <<TraitBound(Some(GenericArgs(FALSE, <<GenericArg_Lifetime(LtB)>>)))>>),
     BoundPredicate(<<GenericParam_Lifetime("c", <<>>)>>, TyT,
         <<TraitBound(Some(GenericArgs(FALSE, <<GenericArg_Lifetime(LifetimeName_Param("c"))>>)))>>),
     BoundPredicate(<<>>, TyT, <<TraitBound(TypeArgs(BoxDyn(LifetimeName_Static)))>>),
     BoundPredicate(<<>>, TyT, <<TraitBound(TypeArgs(ForeignExistential))>>),
     EqPredicate(TyT, U8),
     EqPredicate(TyT, TyRptr(LtB, U8))}

-----------------------------------------------------------------------------
(* check_fn_inner as a state machine *)

VARIABLES decl, generics, body, external_macro,
          pc, bounds_lts, elision, needless_lifetimes, extra_unused_lifetimes

vars == <<decl, generics, body, external_macro,
          pc, bounds_lts, elision, needless_lifetimes, extra_unused_lifetimes>>

\* one deep type tree as the only parameter, or as the return type
DeepSignature ==
    /\ \E t \in TyTrees(MaxDepth) :
          \/ \E o \in {None, Some(RefA)} : decl = FnDecl(<<t>>, o)
          \/ decl = FnDecl(<<RefA>>, Some(t))
    /\ generics = Generics(PlainLifetimes, <<>>)
    /\ body = None
    /\ external_macro = FALSE

\* up to MaxInputs simple parameters under every declaration of the lifetimes
ShallowSignature ==
    /\ \E i \in SeqsUpTo(ShallowTys, MaxInputs), o \in ShallowOutputs :
          decl = FnDecl(i, o)
    /\ \E lp \in LifetimeParams : generics = Generics(lp, <<>>)
    /\ body = None
    /\ external_macro = FALSE

\* at most one simple parameter, every kind of type-parameter bound and body
BoundedSignature ==
    /\ \E i \in SeqsUpTo(ShallowTys, 1), o \in ShallowOutputs : decl = FnDecl(i, o)
    /\ \E lp \in LifetimeParams, tb \in TypeParamBounds :
          generics = Generics(lp \o <<GenericParam_Type("T", tb)>>, <<>>)
    /\ body \in Bodies
    /\ external_macro = FALSE

\* where clauses of up to MaxPreds predicates, inside and outside macros
WhereSignature ==
    /\ \E i \in {<<RefA>>, <<U8>>, <<RefA, TyRptr(LtB, U8)>>} : decl = FnDecl(i, None)
    /\ \E w \in SeqsUpTo(WherePredicates, MaxPreds) :
          generics = Generics(PlainLifetimes \o <<GenericParam_Type("T", <<>>)>>, w)
    /\ body = None
    /\ external_macro \in BOOLEAN

\* the signature check_item, check_impl_item or check_trait_item hands over
Init ==
    /\ \/ DeepSignature
       \/ ShallowSignature
       \/ BoundedSignature
       \/ WhereSignature
    /\ pc = "entry"
    /\ bounds_lts = <<>>
    /\ elision = None
    /\ needless_lifetimes = FALSE
    /\ extra_unused_lifetimes = {}

\* line 99: in_external_macro(..) || has_where_lifetimes(..), short-circuit
guard == IF external_macro THEN Ret(TRUE) ELSE has_where_lifetimes(generics.where_clause)

\* lines 99-101, the guard holds: return
GuardReturn ==
    /\ pc = "entry"
    /\ ~guard.fault /\ guard.ret
    /\ pc' = "returned"
    /\ UNCHANGED <<decl, generics, body, external_macro,
                   bounds_lts, elision, needless_lifetimes, extra_unused_lifetimes>>

GuardPass ==
    /\ pc = "entry"
    /\ ~guard.fault /\ ~guard.ret
    /\ pc' = "bounds"
    /\ UNCHANGED <<decl, generics, body, external_macro,
                   bounds_lts, elision, needless_lifetimes, extra_unused_lifetimes>>

scanned == scan_bounds(type_param_bounds(generics.params), <<>>)

\* lines 103-137, a bound names a lifetime: return
BoundsReturn ==
    /\ pc = "bounds"
    /\ scanned.outcome = "return"
    /\ pc' = "returned"
    /\ UNCHANGED <<decl, generics, body, external_macro,
                   bounds_lts, elision, needless_lifetimes, extra_unused_lifetimes>>

BoundsPass ==
    /\ pc = "bounds"
    /\ scanned.outcome = "pass"
    /\ bounds_lts' = scanned.bounds_lts
    /\ pc' = "elision"
    /\ UNCHANGED <<decl, generics, body, external_macro,
                   elision, needless_lifetimes, extra_unused_lifetimes>>

elided == could_use_elision(decl, body, generics.params, bounds_lts)

\* lines 138-145: could_use_elision and the NEEDLESS_LIFETIMES lint
Elision ==
    /\ pc = "elision"
    /\ ~elided.fault
    /\ elision' = Some(elided)
    /\ needless_lifetimes' = elided.ret
    /\ pc' = "report"
    /\ UNCHANGED <<decl, generics, body, external_macro, bounds_lts, extra_unused_lifetimes>>

\* line 146: report_extra_lifetimes and the EXTRA_UNUSED_LIFETIMES lint
Report ==
    /\ pc = "report"
    /\ extra_unused_lifetimes' = report_extra_lifetimes(decl, generics)
    /\ pc' = "done"
    /\ UNCHANGED <<decl, generics, body, external_macro,
                   bounds_lts, elision, needless_lifetimes>>

\* a RefVisitor panics (lines 347, 355): check_fn_inner unwinds
Panic ==
    /\ \/ pc = "entry" /\ guard.fault
       \/ pc = "bounds" /\ scanned.outcome = "fault"
       \/ pc = "elision" /\ elided.fault
    /\ pc' = "panic"
    /\ UNCHANGED <<decl, generics, body, external_macro,
                   bounds_lts, elision, needless_lifetimes, extra_unused_lifetimes>>

Next ==
    \/ GuardReturn
    \/ GuardPass
    \/ BoundsReturn
    \/ BoundsPass
    \/ Elision
    \/ Report
    \/ Panic

Spec == Init /\ [][Next]_vars

-----------------------------------------------------------------------------
(* Vocabulary of the properties: what is written in a signature *)

RECURSIVE TypeArgsOf(_)
TypeArgsOf(args) ==
    IF args = <<>> THEN {}
    ELSE (IF Head(args).kind = "Type" THEN {Head(args).ty} ELSE {}) \cup TypeArgsOf(Tail(args))

RECURSIVE LifetimeArgsOf(_)
LifetimeArgsOf(args) ==
    IF args = <<>> THEN {}
    ELSE (IF Head(args).kind = "Lifetime" THEN {Head(args).lt} ELSE {})
         \cup LifetimeArgsOf(Tail(args))

ArgsOf(p) == IF p.args.some THEN p.args.val.args ELSE <<>>

TraitRefsOf(bounds) == {b.trait_ref : b \in {c \in SeqToSet(bounds) : c.kind = "Trait"}}
OutlivesOf(bounds) == {b.lt : b \in {c \in SeqToSet(bounds) : c.kind = "Outlives"}}

\* the types written directly below a type node
Children(ty) ==
    CASE ty.node = "TyRptr" -> {ty.ty}
      [] ty.node = "TyTup" -> SeqToSet(ty.tys)
      [] ty.node = "TyPath" -> TypeArgsOf(ArgsOf(ty))
      [] ty.node = "TyTraitObject" ->
            UNION {TypeArgsOf(ArgsOf(r)) : r \in TraitRefsOf(ty.bounds)}
      [] OTHER -> {}

RECURSIVE Nodes(_)
Nodes(ty) == {ty} \cup UNION {Nodes(c) : c \in Children(ty)}

NodesOfAll(tys) == UNION {Nodes(t) : t \in tys}

\* the lifetimes written directly at a type node
LifetimesAt(n) ==
    CASE n.node = "TyRptr" -> {n.lt}
      [] n.node = "TyPath" -> LifetimeArgsOf(ArgsOf(n))
      [] n.node = "TyTraitObject" ->
            {n.lt} \cup UNION {LifetimeArgsOf(ArgsOf(r)) : r \in TraitRefsOf(n.bounds)}
      [] OTHER -> {}

BoundTypes(bounds) == UNION {TypeArgsOf(ArgsOf(r)) : r \in TraitRefsOf(bounds)}
BoundLifetimes(bounds) ==
    OutlivesOf(bounds)
    \cup UNION {LifetimeArgsOf(ArgsOf(r)) : r \in TraitRefsOf(bounds)}
    \cup UNION {LifetimesAt(n) : n \in NodesOfAll(BoundTypes(bounds))}

InputTypes == SeqToSet(decl.inputs)
OutputTypes == IF decl.output.some THEN {decl.output.val} ELSE {}
DeclNodes == NodesOfAll(InputTypes \cup OutputTypes)

TypeParams == {q \in SeqToSet(generics.params) : q.kind = "Type"}
LifetimeParamsDeclared == {q \in SeqToSet(generics.params) : q.kind = "Lifetime"}
WherePreds == SeqToSet(generics.where_clause)

AnalysisRan == pc \in {"report", "done"}
Finished == pc \in {"returned", "done"}

-----------------------------------------------------------------------------
(* Properties *)

HasRegionPredicate == \E p \in WherePreds : p.kind = "RegionPredicate"

\* C1: a where clause that holds a region-outlives predicate, at any position
\* and whatever the other predicates are, makes has_where_lifetimes return
\* true: check_fn_inner never gets past its guard and emits no
\* needless-lifetimes lint.
C1_RegionPredicateBails ==
    HasRegionPredicate => /\ pc \in {"entry", "returned", "panic"}
                          /\ ~needless_lifetimes

PredicateLifetimes(p) ==
    CASE p.kind = "RegionPredicate" -> {p.lifetime} \cup BoundLifetimes(p.bounds)
      [] p.kind = "BoundPredicate" ->
            UNION {LifetimesAt(n) : n \in Nodes(p.bounded_ty)} \cup BoundLifetimes(p.bounds)
      [] OTHER -> UNION {LifetimesAt(n) : n \in Nodes(p.lhs_ty) \cup Nodes(p.rhs_ty)}

\* every lifetime written in the signature outside the declaration list of
\* the lifetime parameters
WrittenLifetimes ==
    UNION {LifetimesAt(n) : n \in DeclNodes}
    \cup UNION {BoundLifetimes(q.bounds) : q \in TypeParams}
    \cup UNION {PredicateLifetimes(p) : p \in WherePreds}

UnusedLifetimeParams ==
    {q.name : q \in LifetimeParamsDeclared}
    \ {l.ident : l \in {w \in WrittenLifetimes : w.name = "Param"}}

\* C2: outside macro-expanded code check_fn_inner ends with one
\* unused-lifetime finding for exactly each declared lifetime parameter whose
\* name is written nowhere else in the signature, whether or not the where
\* clause or a type-parameter bound made the elision analysis bail out.
C2_UnusedFindingsIndependent ==
    (Finished /\ ~external_macro) => extra_unused_lifetimes = UnusedLifetimeParams

\* C8: check_fn_inner never reaches a fault state (unwrap on None,
\* unreachable!, failed expect), whatever the signature names.
C8_NoFault == pc # "panic"

InputLts == elision.val.input_lts.val
OutputLts == elision.val.output_lts.val

NamedAllowed(lts) ==
    \A i \in 1..Len(lts) :
        lts[i][1] = "Named" =>
            \E q \in LifetimeParamsDeclared : q.bounds = <<>> /\ q.name = lts[i][2]

NoNamedLifetimeInBody ==
    body.some => \A i \in 1..Len(body.val) :
                    body.val[i] \in {LifetimeName_Static, LifetimeName_Implicit}

PairwiseDistinct(q) == \A i, j \in 1..Len(q) : i # j => q[i] # q[j]

ElisionRule(I, O) ==
    /\ I # <<>>
    /\ \/ /\ O = <<>>
          /\ \E i \in 1..Len(I) : I[i][1] = "Named"
          /\ PairwiseDistinct(I)
       \/ /\ O # <<>>
          /\ \A i \in 1..Len(O) : O[i] = O[1]
          /\ Len(I) = 1
          /\ I[1][1] = "Named"
          /\ O[1] \in {I[1], RefLt_Unnamed}

C3_Precondition ==
    /\ AnalysisRan
    /\ elision.val.input_lts.some
    /\ elision.val.output_lts.some
    /\ NamedAllowed(InputLts \o OutputLts)
    /\ NoNamedLifetimeInBody

\* C3: for non-aborted sequences I and O whose Named members are all allowed,
\* with no named lifetime in the body, could_use_elision returns true exactly
\* when I is non-empty and either O is empty, I has a Named member and the
\* members of I are pairwise distinct, or O is non-empty with one distinct
\* value, I is a single Named(n) and O's value is Named(n) or Unnamed.
C3_ElisionRules ==
    C3_Precondition => (elision.val.ret <=> ElisionRule(InputLts, OutputLts))

C3_Witness ==
    /\ pc = "done"
    /\ C3_Precondition
    /\ elision.val.ret
    /\ OutputLts # <<>>
    /\ bounds_lts # <<>>

ExplicitTraitObjectIn(tys) ==
    \E n \in NodesOfAll(tys) :
        n.node = "TyTraitObject" /\ n.lt.name \notin {"Implicit", "Underscore"}

\* C4: a trait object with a non-elided lifetime at any depth of a parameter
\* type or of the return type aborts the collector of that position, and
\* could_use_elision returns false whatever the rest of the signature is.
C4_TraitObjectAborts ==
    AnalysisRan =>
        /\ ExplicitTraitObjectIn(InputTypes) =>
              elision.val.input_visitor.abort /\ ~elision.val.ret /\ ~needless_lifetimes
        /\ ExplicitTraitObjectIn(OutputTypes) =>
              elision.val.output_visitor.abort /\ ~elision.val.ret /\ ~needless_lifetimes

C4_Witness ==
    /\ pc = "done"
    /\ \E t \in InputTypes : t.node # "TyTraitObject" /\ ExplicitTraitObjectIn(Children(t))
    /\ elision.val.input_visitor.abort
    /\ elision.val.input_visitor.lts # <<>>

NoReferences == \A n \in DeclNodes : n.node # "TyRptr"

\* the lifetime arguments written on a path, or on a trait of a trait object
LifetimeArgsAt(n) ==
    CASE n.node = "TyPath" -> LifetimeArgsOf(ArgsOf(n))
      [] n.node = "TyTraitObject" ->
            UNION {LifetimeArgsOf(ArgsOf(r)) : r \in TraitRefsOf(n.bounds)}
      [] OTHER -> {}

NamedLifetimeArgInInputs ==
    \E n \in NodesOfAll(InputTypes) : \E l \in LifetimeArgsAt(n) : l.name = "Param"

\* C5 as stated: a signature with no reference-typed parameter and no
\* reference-typed return type never gets the needless-lifetimes verdict,
\* paths with explicit lifetime arguments included.
C5_NoReferencesNoVerdict == NoReferences => ~needless_lifetimes

\* C5 amended: a signature with no reference-typed parameter, no
\* reference-typed return type and no named lifetime argument written in a
\* parameter type never gets the needless-lifetimes verdict.
C5_NoReferencesNoNamedArgNoVerdict ==
    (NoReferences /\ ~NamedLifetimeArgInInputs) =>
        /\ ~needless_lifetimes
        /\ AnalysisRan => ~elision.val.ret

C5_Witness ==
    /\ pc = "done"
    /\ NoReferences
    /\ ~NamedLifetimeArgInInputs
    /\ \E t \in InputTypes : t.node = "TyPath" /\ LifetimeArgsOf(ArgsOf(t)) # {}
    /\ elision.val.input_lts.some
    /\ InputLts # <<>>

AllElided ==
    \A l \in UNION {LifetimesAt(n) : n \in DeclNodes}
             \cup UNION {BoundLifetimes(q.bounds) : q \in TypeParams} :
        l.name \in {"Implicit", "Underscore"}

\* C6: when every lifetime written in the parameter types, the return type
\* and the bounds of the type parameters is elided, the elision verdict is
\* false.
C6_AllElidedNoVerdict ==
    AllElided => /\ ~needless_lifetimes
                 /\ AnalysisRan => ~elision.val.ret

C6_Witness ==
    /\ pc = "done"
    /\ AllElided
    /\ \E n \in DeclNodes : n.node = "TyRptr"
    /\ bounds_lts # <<>>
    /\ ~elision.val.ret

\* a path for which collect_anonymous_lifetimes asks for the declaration
Queried(n) ==
    /\ n.node = "TyPath"
    /\ n.def.kind # "Existential"
    /\ n.args.some
    /\ ~n.args.val.parenthesized
    /\ LifetimeArgsOf(ArgsOf(n)) = {}

\* ... and the declaration is not a struct, a type alias or a trait
Unresolved(n) == Queried(n) /\ n.def.kind \notin {"Struct", "TyAlias", "Trait"}

RECURSIVE WithoutUnresolved(_)
RECURSIVE WithoutUnresolvedSeq(_)
RECURSIVE WithoutUnresolvedArgs(_)
RECURSIVE WithoutUnresolvedBounds(_)
RECURSIVE TypesOfArgs(_)

TypesOfArgs(args) ==
    IF args = <<>> THEN <<>>
    ELSE (IF Head(args).kind = "Type" THEN <<Head(args).ty>> ELSE <<>>) \o TypesOfArgs(Tail(args))

\* the type tree with every unresolved path replaced by the tuple of its
\* type arguments
WithoutUnresolved(ty) ==
    CASE ty.node = "TyRptr" -> TyRptr(ty.lt, WithoutUnresolved(ty.ty))
      [] ty.node = "TyTup" -> TyTup(WithoutUnresolvedSeq(ty.tys))
      [] ty.node = "TyPath" ->
            IF Unresolved(ty)
            THEN TyTup(WithoutUnresolvedSeq(TypesOfArgs(ty.args.val.args)))
            ELSE IF ty.args.some
                 THEN TyPath(ty.def, Some(GenericArgs(ty.args.val.parenthesized,
                                              WithoutUnresolvedArgs(ty.args.val.args))))
                 ELSE ty
      [] ty.node = "TyTraitObject" -> TyTraitObject(WithoutUnresolvedBounds(ty.bounds), ty.lt)
      [] OTHER -> ty

WithoutUnresolvedSeq(tys) ==
    IF tys = <<>> THEN <<>>
    ELSE <<WithoutUnresolved(Head(tys))>> \o WithoutUnresolvedSeq(Tail(tys))

WithoutUnresolvedArgs(args) ==
    IF args = <<>> THEN <<>>
    ELSE <<IF Head(args).kind = "Type"
           THEN GenericArg_Type(WithoutUnresolved(Head(args).ty))
           ELSE Head(args)>> \o WithoutUnresolvedArgs(Tail(args))

WithoutUnresolvedBounds(bounds) ==
    IF bounds = <<>> THEN <<>>
    ELSE <<IF Head(bounds).kind = "Trait" /\ Head(bounds).trait_ref.args.some
           THEN GenericBound_Trait(PolyTraitRef(Head(bounds).trait_ref.def,
                    Some(GenericArgs(Head(bounds).trait_ref.args.val.parenthesized,
                         WithoutUnresolvedArgs(Head(bounds).trait_ref.args.val.args)))))
           ELSE Head(bounds)>> \o WithoutUnresolvedBounds(Tail(bounds))

Descriptor(l) ==
    CASE l.name = "Static" -> RefLt_Static
      [] l.name \in {"Implicit", "Underscore"} -> RefLt_Unnamed
      [] OTHER -> RefLt_Named(l.ident)

\* type trees made of references, tuples and paths that carry their lifetime
\* arguments or no arguments: nothing is synthesized for them
Plain(n) ==
    \/ n.node \in {"TyRptr", "TyTup"}
    \/ /\ n.node = "TyPath"
       /\ n.def.kind # "Existential"
       /\ ~n.args.some \/ LifetimeArgsOf(ArgsOf(n)) # {}

RECURSIVE Occurrences(_)
RECURSIVE OccurrencesSeq(_)
RECURSIVE OccurrencesArgs(_)

\* one descriptor per reference and per lifetime argument, left to right,
\* outer to inner
Occurrences(ty) ==
    CASE ty.node = "TyRptr" -> <<Descriptor(ty.lt)>> \o Occurrences(ty.ty)
      [] ty.node = "TyTup" -> OccurrencesSeq(ty.tys)
      [] ty.node = "TyPath" -> OccurrencesArgs(ArgsOf(ty))
      [] OTHER -> <<>>

OccurrencesSeq(tys) ==
    IF tys = <<>> THEN <<>> ELSE Occurrences(Head(tys)) \o OccurrencesSeq(Tail(tys))

OccurrencesArgs(args) ==
    IF args = <<>> THEN <<>>
    ELSE (IF Head(args).kind = "Lifetime"
          THEN <<Descriptor(Head(args).lt)>>
          ELSE Occurrences(Head(args).ty)) \o OccurrencesArgs(Tail(args))

\* C9: when the collector does not abort, its sequence holds exactly one
\* descriptor per reference or explicit region occurrence in traversal order:
\* one Unnamed for a reference with an elided lifetime, one Static or
\* Named(id) for an explicit lifetime.
C9_OneDescriptorPerOccurrence ==
    (AnalysisRan /\ ~elision.val.input_visitor.abort
        /\ \A n \in NodesOfAll(InputTypes) : Plain(n)) =>
        elision.val.input_visitor.lts = OccurrencesSeq(decl.inputs)

Resolvable(n) ==
    n.node = "TyPath" /\ n.def.kind \in {"Struct", "TyAlias", "Trait"}

\* the descriptors visit_ty records for the path itself, beyond those of its
\* generic arguments
Synthesized(n) ==
    Len(RefVisitor_visit_ty(RefVisitor_new, n).lts)
    - Len(RefVisitor_walk_generic_args(RefVisitor_new, ArgsOf(n)).lts)

\* C10 as stated: a path to a struct, type alias or trait gets one Unnamed per
\* generic parameter of the declaration exactly when it is written with no
\* lifetime argument and no type argument; with all arguments omitted it gets
\* one per parameter, with explicit type arguments it gets none.
C10_SynthesizedIffNoArguments ==
    AnalysisRan =>
        /\ \A n \in DeclNodes :
              Resolvable(n) =>
                  Synthesized(n) =
                      IF LifetimeArgsOf(ArgsOf(n)) = {} /\ TypeArgsOf(ArgsOf(n)) = {}
                      THEN n.def.params
                      ELSE 0
        /\ (Len(decl.inputs) = 1 /\ Resolvable(decl.inputs[1])) =>
              Len(elision.val.input_visitor.lts) =
                  Len(RefVisitor_walk_generic_args(RefVisitor_new, ArgsOf(decl.inputs[1])).lts)
                  + IF /\ LifetimeArgsOf(ArgsOf(decl.inputs[1])) = {}
                       /\ TypeArgsOf(ArgsOf(decl.inputs[1])) = {}
                    THEN decl.inputs[1].def.params
                    ELSE 0

\* C10 amended: a path to a struct, type alias or trait gets one Unnamed per
\* generic parameter of the declaration exactly when its last segment has an
\* argument list that is not parenthesized and holds no lifetime argument;
\* explicit type arguments do not prevent it, and a segment without an
\* argument list gets none.
C10_SynthesizedIffNoLifetimeArgument ==
    AnalysisRan =>
        /\ \A n \in DeclNodes :
              Resolvable(n) => Synthesized(n) = IF Queried(n) THEN n.def.params ELSE 0
        /\ (Len(decl.inputs) = 1 /\ Resolvable(decl.inputs[1])) =>
              Len(elision.val.input_visitor.lts) =
                  Len(RefVisitor_walk_generic_args(RefVisitor_new, ArgsOf(decl.inputs[1])).lts)
                  + IF Queried(decl.inputs[1]) THEN decl.inputs[1].def.params ELSE 0

C10_Witness ==
    /\ pc = "done"
    /\ \E n \in DeclNodes :
          /\ Resolvable(n)
          /\ TypeArgsOf(ArgsOf(n)) # {}
          /\ Queried(n)
          /\ n.def.params > 1
          /\ Synthesized(n) = n.def.params
    /\ \E n \in DeclNodes : Resolvable(n) /\ ~n.args.some /\ Synthesized(n) = 0

=============================================================================
